---- MODULE Spec2Model ----
(***************************************************************************)
(* Model of the Secret finalizer reconciler of gardener-resource-manager   *)
(* (pkg/controller/managedresources/secret_controller.go).                 *)
(*                                                                         *)
(* Two reconciler instances, one per class, run SecretReconciler.Reconcile *)
(* against one shared object store.  Every call against the store (Get,    *)
(* List, the Get and the Update inside utils.TryUpdate) is one atomic      *)
(* step; external actors change ManagedResources and Secrets in between.   *)
(***************************************************************************)
EXTENDS Integers, Sequences, FiniteSets, TLC

\* ------------------------------------------------------------------------
\* Bounds of the model
\* ------------------------------------------------------------------------

\* Longest secretRefs list of a ManagedResource.
MaxRefs == 1

\* Number of structural changes (create / update / delete of a
\* ManagedResource, create / delete of a Secret) external actors perform.
MaxEnvOps == 3

SecretNames == {"s1", "s2"}

\* The Secrets and ManagedResources that can exist, by (namespace, name).
SecretKeys == {<<"n1", "s1">>, <<"n2", "s1">>}
ResourceKeys == {<<"n1", "web">>, <<"n2", "web">>}

\* ------------------------------------------------------------------------
\* Program constants
\* ------------------------------------------------------------------------

\* retry.DefaultBackoff.Steps: attempts made by utils.TryUpdate.
Steps == 4

\* RequeueAfter: 5 * time.Second
RequeueDelay == 5

\* ClassFilter: the default class and the base finalizer identifier.
DefaultClass == "resources"
BaseFinalizer == "resources.gardener.cloud/gardener-resource-manager"

\* The classes the two reconciler instances are configured with.
Classes == {"resources", "custom"}

\* Class labels a ManagedResource can carry; "" is an absent label.
ClassLabels == {"", "resources", "custom"}

\* ClassFilter.FinalizerName
FinalizerName(class) ==
    IF class = DefaultClass THEN BaseFinalizer ELSE BaseFinalizer \o "-" \o class

\* ClassFilter.Responsible
Responsible(class, resource) ==
    \/ resource.class = class
    \/ resource.class = "" /\ class = DefaultClass

Finalizers == {FinalizerName(c) : c \in Classes}

\* ------------------------------------------------------------------------
\* Values
\* ------------------------------------------------------------------------

RefLists == UNION {[1..n -> SecretNames] : n \in 0..MaxRefs}

NoResource == [exists |-> FALSE, class |-> "", secretRefs |-> <<>>]
NoSecret == [exists |-> FALSE, finalizers |-> {}, deleting |-> FALSE]
NewSecret == [exists |-> TRUE, finalizers |-> {}, deleting |-> FALSE]

\* reconcile.Result together with the returned error ("" is nil).
NoResult == [returned |-> FALSE, requeueAfter |-> 0, error |-> ""]
Success == [returned |-> TRUE, requeueAfter |-> 0, error |-> ""]
Requeue == [returned |-> TRUE, requeueAfter |-> RequeueDelay, error |-> ""]
FetchError == [returned |-> TRUE, requeueAfter |-> 0, error |-> "could not fetch Secret"]
ListError ==
    [returned |-> TRUE, requeueAfter |-> 0,
     error |-> "could not fetch ManagedResources in namespace of Secret"]

VARIABLES
    secrets,            \* store: Secret objects by key
    resources,          \* store: ManagedResource objects by key
    envOps,             \* number of structural changes made by external actors
    pc,                 \* per instance: position inside Reconcile
    req,                \* per instance: req.NamespacedName
    secret,             \* per instance: finalizers of the local Secret object
    upToDate,           \* per instance: the local object's resourceVersion is the stored one
    secretIsReferenced, \* per instance: local of Reconcile
    addFinalizer,       \* per instance: local of Reconcile
    removeFinalizer,    \* per instance: local of Reconcile
    attempt,            \* per instance: attempts begun by TryUpdate
    err,                \* per instance: error of the last store call
    result,             \* per instance: what the last Reconcile returned
    listed,             \* per instance: List calls issued by this Reconcile
    updates,            \* per instance: Update calls issued by this Reconcile
    pending,            \* hosting framework: Secret keys waiting for a Reconcile
    object,             \* health checks: the object handed to a check
    checked,            \* health checks: the check has returned
    health              \* health checks: the error the check returned

vars == <<secrets, resources, envOps, pc, req, secret, upToDate, secretIsReferenced,
          addFinalizer, removeFinalizer, attempt, err, result, listed, updates,
          pending, object, checked, health>>

healthVars == <<object, checked, health>>

storeVars == <<secrets, resources, envOps>>
localVars == <<pc, req, secret, secretIsReferenced, addFinalizer, removeFinalizer,
               attempt, err, result, listed, updates>>

\* ------------------------------------------------------------------------
\* The object store (client collaborator)
\* ------------------------------------------------------------------------

\* A write to Secret k gives it a new resourceVersion: every local copy of it
\* held by a reconciler is stale from then on.
Invalidate(k) == [c \in Classes |-> IF req[c] = k THEN FALSE ELSE upToDate[c]]

\* The object left in the store by an accepted Update that sets the finalizers:
\* a Secret whose deletion was requested is removed with its last finalizer.
StoreUpdate(old, finalizers) ==
    IF old.deleting /\ finalizers = {}
    THEN NoSecret
    ELSE [old EXCEPT !.finalizers = finalizers]

\* The object left in the store by a delete request: removed when no finalizer
\* blocks it, otherwise marked for deletion.
StoreDelete(old) ==
    IF old.finalizers = {} THEN NoSecret ELSE [old EXCEPT !.deleting = TRUE]

\* Faulty variant of ListInNamespace: the list is not restricted to the namespace.
ListAllNamespaces(namespace) ==
    {resources[rk] : rk \in {x \in ResourceKeys : resources[x].exists}}

\* client.List(..., client.InNamespace(namespace))
ListInNamespace(namespace) ==
    {resources[rk] : rk \in {x \in ResourceKeys : x[1] = namespace /\ resources[x].exists}}

\* ------------------------------------------------------------------------
\* External actors
\* ------------------------------------------------------------------------

CreateResource(rk, class, refs) ==
    /\ envOps < MaxEnvOps
    /\ ~resources[rk].exists
    /\ resources' = [resources EXCEPT ![rk] =
                        [exists |-> TRUE, class |-> class, secretRefs |-> refs]]
    /\ envOps' = envOps + 1
    /\ UNCHANGED <<secrets, upToDate>>
    /\ UNCHANGED localVars

UpdateResource(rk, class, refs) ==
    /\ envOps < MaxEnvOps
    /\ resources[rk].exists
    /\ <<class, refs>> # <<resources[rk].class, resources[rk].secretRefs>>
    /\ resources' = [resources EXCEPT ![rk] =
                        [exists |-> TRUE, class |-> class, secretRefs |-> refs]]
    /\ envOps' = envOps + 1
    /\ UNCHANGED <<secrets, upToDate>>
    /\ UNCHANGED localVars

DeleteResource(rk) ==
    /\ envOps < MaxEnvOps
    /\ resources[rk].exists
    /\ resources' = [resources EXCEPT ![rk] = NoResource]
    /\ envOps' = envOps + 1
    /\ UNCHANGED <<secrets, upToDate>>
    /\ UNCHANGED localVars

CreateSecret(k) ==
    /\ envOps < MaxEnvOps
    /\ ~secrets[k].exists
    /\ secrets' = [secrets EXCEPT ![k] = NewSecret]
    /\ upToDate' = Invalidate(k)
    /\ envOps' = envOps + 1
    /\ UNCHANGED resources
    /\ UNCHANGED localVars

\* An update of the Secret's data by its owner: only the resourceVersion changes.
TouchSecret(k) ==
    /\ secrets[k].exists
    /\ upToDate' = Invalidate(k)
    /\ UNCHANGED storeVars
    /\ UNCHANGED localVars

DeleteSecret(k) ==
    /\ envOps < MaxEnvOps
    /\ secrets[k].exists
    /\ ~secrets[k].deleting
    /\ secrets' = [secrets EXCEPT ![k] = StoreDelete(secrets[k])]
    /\ upToDate' = Invalidate(k)
    /\ envOps' = envOps + 1
    /\ UNCHANGED resources
    /\ UNCHANGED localVars

\* ------------------------------------------------------------------------
\* SecretReconciler.Reconcile
\* ------------------------------------------------------------------------

\* Faulty variant of IsReferenced: the class of the ManagedResource is not looked at.
IsReferencedByAnyClass(class, name, resourceList) ==
    \E resource \in resourceList :
        \E i \in DOMAIN resource.secretRefs : resource.secretRefs[i] = name

\* secretIsReferenced: some listed ManagedResource this instance is
\* responsible for has a secretRef with the Secret's name.
IsReferenced(class, name, resourceList) ==
    \E resource \in resourceList :
        \E i \in DOMAIN resource.secretRefs :
            resource.secretRefs[i] = name /\ Responsible(class, resource)

\* Faulty variant of AddDecision: the finalizer is added whenever the Secret is
\* referenced, also when it is already there.
AddDecisionAlways(class, referenced, secretFinalizers) ==
    referenced

AddDecision(class, referenced, secretFinalizers) ==
    referenced /\ FinalizerName(class) \notin secretFinalizers

\* Faulty variant of RemoveDecision: the negation of secretIsReferenced is lost.
RemoveDecisionWhenReferenced(class, referenced, secretFinalizers) ==
    /\ ~AddDecision(class, referenced, secretFinalizers)
    /\ referenced /\ FinalizerName(class) \in secretFinalizers

RemoveDecision(class, referenced, secretFinalizers) ==
    /\ ~AddDecision(class, referenced, secretFinalizers)
    /\ ~referenced /\ FinalizerName(class) \in secretFinalizers

\* Faulty variant of Transform: Insert and Delete are exchanged.
TransformSwapped(class, add, remove, secretFinalizers) ==
    IF add THEN secretFinalizers \ {FinalizerName(class)}
    ELSE IF remove THEN secretFinalizers \cup {FinalizerName(class)}
    ELSE secretFinalizers

\* Faulty variant of Transform: the add branch is missing.
TransformIgnoresAdd(class, add, remove, secretFinalizers) ==
    IF remove THEN secretFinalizers \ {FinalizerName(class)}
    ELSE secretFinalizers

\* Faulty variant of Transform: the remove branch is missing.
TransformIgnoresRemove(class, add, remove, secretFinalizers) ==
    IF add THEN secretFinalizers \cup {FinalizerName(class)}
    ELSE secretFinalizers

\* Faulty variant of Transform: adding assigns the finalizer list instead of inserting.
TransformOverwrites(class, add, remove, secretFinalizers) ==
    IF add THEN {FinalizerName(class)}
    ELSE IF remove THEN secretFinalizers \ {FinalizerName(class)}
    ELSE secretFinalizers

\* Faulty variant of Transform: removing clears the finalizer list.
TransformClears(class, add, remove, secretFinalizers) ==
    IF add THEN secretFinalizers \cup {FinalizerName(class)}
    ELSE IF remove THEN {}
    ELSE secretFinalizers

\* The transform function handed to TryUpdate, applied to the finalizers of the
\* Secret TryUpdate has just read.
Transform(class, add, remove, secretFinalizers) ==
    IF add THEN secretFinalizers \cup {FinalizerName(class)}
    ELSE IF remove THEN secretFinalizers \ {FinalizerName(class)}
    ELSE secretFinalizers

\* Faulty variant of GetResult: every error of the fetch is taken for a deleted Secret.
GetResultIgnoresError(e) == Success

\* What Reconcile returns when fetching the Secret failed with e.
GetResult(e) ==
    IF e = "NotFound" THEN Success ELSE FetchError

\* Faulty variant of UpdateResult: not-found is not ignored.
UpdateResultNotFoundFails(e) ==
    IF e = "" THEN Success ELSE Requeue

\* Faulty variant of UpdateResult: the failure is returned as an error, which puts the
\* request under the framework's growing backoff.
UpdateResultPropagates(e) ==
    IF e = "" \/ e = "NotFound" THEN Success
    ELSE [returned |-> TRUE, requeueAfter |-> 0,
          error |-> "failed to update finalizers of Secret"]

\* Faulty variant of UpdateResult: the failure is dropped, so nothing asks for
\* another Reconcile.
UpdateResultDropsFailure(e) ==
    Success

\* What Reconcile returns for the error TryUpdate returned ("" is nil):
\* client.IgnoreNotFound(err) != nil requeues after the fixed delay.
UpdateResult(e) ==
    IF e = "" \/ e = "NotFound" THEN Success ELSE Requeue

\* The hosting framework hands a request for Secret k to instance c.
Start(c, k) ==
    /\ pc[c] = "idle"
    /\ pc' = [pc EXCEPT ![c] = "get"]
    /\ req' = [req EXCEPT ![c] = k]
    /\ secret' = [secret EXCEPT ![c] = {}]
    /\ upToDate' = [upToDate EXCEPT ![c] = FALSE]
    /\ secretIsReferenced' = [secretIsReferenced EXCEPT ![c] = FALSE]
    /\ addFinalizer' = [addFinalizer EXCEPT ![c] = FALSE]
    /\ removeFinalizer' = [removeFinalizer EXCEPT ![c] = FALSE]
    /\ attempt' = [attempt EXCEPT ![c] = 0]
    /\ err' = [err EXCEPT ![c] = ""]
    /\ result' = [result EXCEPT ![c] = NoResult]
    /\ listed' = [listed EXCEPT ![c] = 0]
    /\ updates' = [updates EXCEPT ![c] = 0]
    /\ UNCHANGED storeVars

\* Reconcile returns r after the store call that answered e; its locals are gone.
Return(c, e, r) ==
    /\ pc' = [pc EXCEPT ![c] = "idle"]
    /\ err' = [err EXCEPT ![c] = e]
    /\ result' = [result EXCEPT ![c] = r]
    /\ secret' = [secret EXCEPT ![c] = {}]
    /\ secretIsReferenced' = [secretIsReferenced EXCEPT ![c] = FALSE]
    /\ addFinalizer' = [addFinalizer EXCEPT ![c] = FALSE]
    /\ removeFinalizer' = [removeFinalizer EXCEPT ![c] = FALSE]
    /\ attempt' = [attempt EXCEPT ![c] = 0]

\* r.client.Get(r.ctx, req.NamespacedName, secret)
GetSecret(c, fails) ==
    /\ pc[c] = "get"
    /\ IF fails
       THEN Return(c, "Other", GetResult("Other"))
       ELSE IF ~secrets[req[c]].exists
       THEN Return(c, "NotFound", GetResult("NotFound"))
       ELSE /\ pc' = [pc EXCEPT ![c] = "list"]
            /\ secret' = [secret EXCEPT ![c] = secrets[req[c]].finalizers]
            /\ UNCHANGED <<err, result, secretIsReferenced, addFinalizer,
                           removeFinalizer, attempt>>
    /\ UNCHANGED <<req, upToDate, listed, updates>>
    /\ UNCHANGED storeVars

\* r.client.List(...), the search for a reference and the add/remove decision.
ListResources(c, fails) ==
    /\ pc[c] = "list"
    /\ listed' = [listed EXCEPT ![c] = @ + 1]
    /\ IF fails
       THEN Return(c, "Other", ListError)
       ELSE LET referenced == IsReferenced(c, req[c][2], ListInNamespace(req[c][1]))
                add == AddDecision(c, referenced, secret[c])
                remove == RemoveDecision(c, referenced, secret[c])
            IN  IF add \/ remove
                THEN /\ pc' = [pc EXCEPT ![c] = "tryGet"]
                     /\ secretIsReferenced' = [secretIsReferenced EXCEPT ![c] = referenced]
                     /\ addFinalizer' = [addFinalizer EXCEPT ![c] = add]
                     /\ removeFinalizer' = [removeFinalizer EXCEPT ![c] = remove]
                     /\ secret' = [secret EXCEPT ![c] = {}]
                     /\ UNCHANGED <<err, result, attempt>>
                ELSE Return(c, "", Success)
    /\ UNCHANGED <<req, upToDate, updates>>
    /\ UNCHANGED storeVars

\* utils.TryUpdate, first half of an attempt: read the Secret again and apply
\* the transform function to it.
TryUpdateGet(c, fails) ==
    /\ pc[c] = "tryGet"
    /\ IF fails
       THEN /\ Return(c, "Other", UpdateResult("Other"))
            /\ UNCHANGED upToDate
       ELSE IF ~secrets[req[c]].exists
       THEN /\ Return(c, "NotFound", UpdateResult("NotFound"))
            /\ UNCHANGED upToDate
       ELSE /\ pc' = [pc EXCEPT ![c] = "tryUpdate"]
            /\ attempt' = [attempt EXCEPT ![c] = @ + 1]
            /\ secret' = [secret EXCEPT ![c] =
                    Transform(c, addFinalizer[c], removeFinalizer[c],
                              secrets[req[c]].finalizers)]
            /\ upToDate' = [upToDate EXCEPT ![c] = TRUE]
            /\ UNCHANGED <<err, result, secretIsReferenced, addFinalizer, removeFinalizer>>
    /\ UNCHANGED <<req, listed, updates>>
    /\ UNCHANGED storeVars

\* The store's answer to an Update of Secret k carrying the caller's
\* resourceVersion: "" when the write is accepted.
UpdateError(k, fresh, fails) ==
    IF fails THEN "Other"
    ELSE IF ~secrets[k].exists THEN "NotFound"
    ELSE IF ~fresh THEN "Conflict"
    ELSE ""

\* Faulty variant of RetryError: a conflict is retried without limit.
RetryErrorUnbounded(e, n) ==
    IF e # "Conflict" THEN e ELSE "Retry"

\* What TryUpdate does with the answer e to the Update of attempt number n:
\* a conflict is retried while attempts are left and is a timeout after the last.
RetryError(e, n) ==
    IF e # "Conflict" THEN e
    ELSE IF n < Steps THEN "Retry"
    ELSE "Timeout"

\* utils.TryUpdate, second half of an attempt: the compare-and-swap Update, and
\* the retry on a conflict.
TryUpdateUpdate(c, fails) ==
    /\ pc[c] = "tryUpdate"
    /\ updates' = [updates EXCEPT ![c] = @ + 1]
    /\ LET e == RetryError(UpdateError(req[c], upToDate[c], fails), attempt[c])
       IN  IF e = "Retry"
           THEN /\ pc' = [pc EXCEPT ![c] = "tryGet"]
                /\ secret' = [secret EXCEPT ![c] = {}]
                /\ upToDate' = [upToDate EXCEPT ![c] = FALSE]
                /\ UNCHANGED <<secrets, result, err, secretIsReferenced, addFinalizer,
                               removeFinalizer, attempt>>
           ELSE /\ Return(c, e, UpdateResult(e))
                /\ IF e = ""
                   THEN /\ secrets' = [secrets EXCEPT ![req[c]] = StoreUpdate(@, secret[c])]
                        /\ upToDate' = Invalidate(req[c])
                   ELSE /\ upToDate' = [upToDate EXCEPT ![c] = FALSE]
                        /\ UNCHANGED secrets
    /\ UNCHANGED <<req, listed>>
    /\ UNCHANGED <<resources, envOps>>

Reconcile(c) ==
    \/ \E fails \in BOOLEAN : GetSecret(c, fails)
    \/ \E fails \in BOOLEAN : ListResources(c, fails)
    \/ \E fails \in BOOLEAN : TryUpdateGet(c, fails)
    \/ \E fails \in BOOLEAN : TryUpdateUpdate(c, fails)

\* ------------------------------------------------------------------------
\* Specification
\* ------------------------------------------------------------------------

Constructed ==
    /\ secrets = [k \in SecretKeys |-> NewSecret]
    /\ resources = [rk \in ResourceKeys |-> NoResource]
    /\ envOps = 0
    /\ pc = [c \in Classes |-> "idle"]
    /\ req = [c \in Classes |-> <<"n1", "s1">>]
    /\ secret = [c \in Classes |-> {}]
    /\ upToDate = [c \in Classes |-> FALSE]
    /\ secretIsReferenced = [c \in Classes |-> FALSE]
    /\ addFinalizer = [c \in Classes |-> FALSE]
    /\ removeFinalizer = [c \in Classes |-> FALSE]
    /\ attempt = [c \in Classes |-> 0]
    /\ err = [c \in Classes |-> ""]
    /\ result = [c \in Classes |-> NoResult]
    /\ listed = [c \in Classes |-> 0]
    /\ updates = [c \in Classes |-> 0]
    /\ pending = {}

\* nil and fmt.Errorf
NoError == <<>>
Errorf(message) == <<message>>

NoObject == [kind |-> "none"]

Init ==
    /\ Constructed
    /\ object = NoObject
    /\ checked = FALSE
    /\ health = NoError

\* External actors working on the Secrets sk and the ManagedResources rks.
Environment(sks, rks) ==
    \/ \E rk \in rks, class \in ClassLabels, refs \in RefLists :
            CreateResource(rk, class, refs)
    \/ \E rk \in rks, class \in ClassLabels, refs \in RefLists :
            UpdateResource(rk, class, refs)
    \/ \E rk \in rks : DeleteResource(rk)
    \/ \E k \in sks : CreateSecret(k)
    \/ \E k \in sks : TouchSecret(k)
    \/ \E k \in sks : DeleteSecret(k)

\* One reconciler instance, configured for the default class, and external
\* actors in every namespace.
Next ==
    /\ \/ Environment(SecretKeys, ResourceKeys)
       \/ \E k \in SecretKeys : Start(DefaultClass, k)
       \/ Reconcile(DefaultClass)
    /\ UNCHANGED <<pending, healthVars>>

Spec == Init /\ [][Next]_vars

\* Two independently deployed reconciler instances, one per class, and
\* external actors in the namespace both of them serve.
InNamespace(keys, namespace) == {k \in keys : k[1] = namespace}

NextClasses ==
    /\ \/ Environment(InNamespace(SecretKeys, "n1"), InNamespace(ResourceKeys, "n1"))
       \/ \E c \in Classes, k \in SecretKeys : Start(c, k)
       \/ \E c \in Classes : Reconcile(c)
    /\ UNCHANGED <<pending, healthVars>>

SpecClasses == Init /\ [][NextClasses]_vars

\* ------------------------------------------------------------------------
\* The reconciler under the hosting framework's work queue
\* ------------------------------------------------------------------------

\* A change of a ManagedResource triggers a Reconcile of the Secrets of its
\* namespace.
ResourceChanges(rk) ==
    /\ \/ \E class \in ClassLabels, refs \in RefLists : CreateResource(rk, class, refs)
       \/ \E class \in ClassLabels, refs \in RefLists : UpdateResource(rk, class, refs)
       \/ DeleteResource(rk)
    /\ pending' = pending \cup InNamespace(SecretKeys, rk[1])
    /\ UNCHANGED healthVars

\* A change of a Secret triggers a Reconcile of it.
SecretChanges(k) ==
    /\ CreateSecret(k) \/ DeleteSecret(k)
    /\ pending' = pending \cup {k}
    /\ UNCHANGED healthVars

\* The framework hands a waiting request to the instance.
Dequeue(c) ==
    \E k \in pending :
        /\ Start(c, k)
        /\ pending' = pending \ {k}
        /\ UNCHANGED healthVars

\* The requests the framework queues after a step of instance c: the request
\* itself when Reconcile returned an error or a RequeueAfter, and the Secret
\* when the step changed it.
Requeued(c) ==
    IF \/ pc'[c] = "idle" /\ (result'[c].error # "" \/ result'[c].requeueAfter > 0)
       \/ secrets' # secrets
    THEN {req[c]}
    ELSE {}

\* A store call of instance c and what Reconcile does with its answer.
Call(c, fails) ==
    /\ \/ GetSecret(c, fails)
       \/ ListResources(c, fails)
       \/ TryUpdateGet(c, fails)
       \/ TryUpdateUpdate(c, fails)
    /\ pending' = pending \cup Requeued(c)
    /\ UNCHANGED healthVars

NextQueue ==
    \/ \E rk \in InNamespace(ResourceKeys, "n1") : ResourceChanges(rk)
    \/ \E k \in InNamespace(SecretKeys, "n1") : SecretChanges(k)
    \/ Dequeue(DefaultClass)
    \/ \E fails \in BOOLEAN : Call(DefaultClass, fails)

\* Every queued request is eventually handed out, and each kind of store call
\* that is issued again and again eventually succeeds.
Fairness ==
    /\ WF_vars(Dequeue(DefaultClass))
    /\ SF_vars(GetSecret(DefaultClass, FALSE) /\ Call(DefaultClass, FALSE))
    /\ SF_vars(ListResources(DefaultClass, FALSE) /\ Call(DefaultClass, FALSE))
    /\ SF_vars(TryUpdateGet(DefaultClass, FALSE) /\ Call(DefaultClass, FALSE))
    /\ SF_vars(TryUpdateUpdate(DefaultClass, FALSE) /\ Call(DefaultClass, FALSE))

SpecQueue == Init /\ [][NextQueue]_vars /\ Fairness

\* ------------------------------------------------------------------------
\* Health checks (package health)
\* ------------------------------------------------------------------------

MaxConditions == 3
MaxGeneration == 2
MaxReplicas == 3

ConditionStatuses == {"True", "False", "Unknown"}
CrdConditionTypes == {"NamesAccepted", "Established", "Terminating", "NonStructuralSchema"}
JobConditionTypes == {"Complete", "Failed"}
Reasons == {"InitialNamesAccepted", "InstanceDeletionFailed"}
Messages == {"see controller log"}
PodPhases == {"Pending", "Running", "Succeeded", "Failed", "Unknown", ""}

ConditionsOf(types) ==
    [type : types, status : ConditionStatuses, reason : Reasons, message : Messages]

ConditionLists(types) ==
    UNION {[1..n -> ConditionsOf(types)] : n \in 0..MaxConditions}

\* A *int32: <<>> is nil, <<n>> points to n.
Replicas == {<<>>} \cup {<<n>> : n \in 0..MaxReplicas}

Workloads(kind) ==
    [kind : {kind}, generation : 0..MaxGeneration, observedGeneration : 0..MaxGeneration,
     replicas : Replicas, readyReplicas : 0..MaxReplicas]

Objects ==
    [kind : {"CustomResourceDefinition"}, conditions : ConditionLists(CrdConditionTypes)]
    \cup [kind : {"Job"}, conditions : ConditionLists(JobConditionTypes)]
    \cup [kind : {"Pod"}, phase : PodPhases]
    \cup Workloads("ReplicaSet")
    \cup Workloads("ReplicationController")

\* fmt's %q of a string and of a slice of strings
Quote(str) == "\"" \o str \o "\""

RECURSIVE QuoteAll(_)
QuoteAll(strs) ==
    IF strs = <<>> THEN ""
    ELSE IF Len(strs) = 1 THEN Quote(Head(strs))
    ELSE Quote(Head(strs)) \o " " \o QuoteAll(Tail(strs))

QuoteSlice(strs) == "[" \o QuoteAll(strs) \o "]"

trueCrdConditionTypes == <<"NamesAccepted", "Established">>
falseOptionalCrdConditionTypes == <<"Terminating">>
healthyPodPhases == <<"Running", "Succeeded">>

\* Faulty variant of getCustomResourceDefinitionCondition: the last matching
\* condition is returned.
getLastCustomResourceDefinitionCondition(conditions, conditionType) ==
    LET matching == {i \in 1..Len(conditions) : conditions[i].type = conditionType}
    IN  IF matching = {} THEN <<>>
        ELSE <<conditions[CHOOSE i \in matching : \A j \in matching : j <= i]>>

\* The first condition of the type, as <<condition>>; <<>> is nil.
RECURSIVE getCustomResourceDefinitionCondition(_, _)
getCustomResourceDefinitionCondition(conditions, conditionType) ==
    IF conditions = <<>> THEN <<>>
    ELSE IF Head(conditions).type = conditionType THEN <<Head(conditions)>>
    ELSE getCustomResourceDefinitionCondition(Tail(conditions), conditionType)

\* Faulty variant of getJobCondition: the first condition is returned whatever
\* its type.
getAnyJobCondition(conditions, conditionType) ==
    IF conditions = <<>> THEN <<>> ELSE <<Head(conditions)>>

RECURSIVE getJobCondition(_, _)
getJobCondition(conditions, conditionType) ==
    IF conditions = <<>> THEN <<>>
    ELSE IF Head(conditions).type = conditionType THEN <<Head(conditions)>>
    ELSE getJobCondition(Tail(conditions), conditionType)

requiredConditionMissing(conditionType) ==
    Errorf("condition " \o Quote(conditionType) \o " is missing")

\* Faulty variant of checkConditionState: Unknown is accepted.
checkConditionStateAcceptsUnknown(conditionType, expected, actual, reason, message) ==
    IF expected # actual /\ actual # "Unknown"
    THEN Errorf("condition " \o Quote(conditionType) \o " has invalid status " \o actual
                \o " (expected " \o expected \o ") due to " \o reason \o ": " \o message)
    ELSE NoError

checkConditionState(conditionType, expected, actual, reason, message) ==
    IF expected # actual
    THEN Errorf("condition " \o Quote(conditionType) \o " has invalid status " \o actual
                \o " (expected " \o expected \o ") due to " \o reason \o ": " \o message)
    ELSE NoError

\* The second loop of CheckCustomResourceDefinition.
RECURSIVE CheckFalseOptionalConditions(_, _)
CheckFalseOptionalConditions(conditions, types) ==
    IF types = <<>> THEN NoError
    ELSE LET conditionType == Head(types)
             condition == getCustomResourceDefinitionCondition(conditions, conditionType)
         IN  IF condition = <<>>
             THEN CheckFalseOptionalConditions(conditions, Tail(types))
             ELSE LET e == checkConditionState(conditionType, "False", condition[1].status,
                                               condition[1].reason, condition[1].message)
                  IN  IF e # NoError THEN e
                      ELSE CheckFalseOptionalConditions(conditions, Tail(types))

\* The first loop of CheckCustomResourceDefinition.
RECURSIVE CheckTrueConditions(_, _)
CheckTrueConditions(conditions, types) ==
    IF types = <<>> THEN NoError
    ELSE LET conditionType == Head(types)
             condition == getCustomResourceDefinitionCondition(conditions, conditionType)
         IN  IF condition = <<>> THEN requiredConditionMissing(conditionType)
             ELSE LET e == checkConditionState(conditionType, "True", condition[1].status,
                                               condition[1].reason, condition[1].message)
                  IN  IF e # NoError THEN e
                      ELSE CheckTrueConditions(conditions, Tail(types))

CheckCustomResourceDefinition(crd) ==
    LET e == CheckTrueConditions(crd.conditions, trueCrdConditionTypes)
    IN  IF e # NoError THEN e
        ELSE CheckFalseOptionalConditions(crd.conditions, falseOptionalCrdConditionTypes)

CheckJob(job) ==
    LET condition == getJobCondition(job.conditions, "Failed")
    IN  IF condition = <<>> THEN NoError
        ELSE checkConditionState("Failed", "False", condition[1].status,
                                 condition[1].reason, condition[1].message)

\* Faulty variant of CheckPod: only the first healthy phase is accepted.
CheckPodFirstPhaseOnly(pod) ==
    IF pod.phase = Head(healthyPodPhases) THEN NoError
    ELSE Errorf("pod is in invalid phase " \o Quote(pod.phase) \o " (expected one of "
                \o QuoteSlice(healthyPodPhases) \o ")")

CheckPod(pod) ==
    LET phase == pod.phase
    IN  IF \E i \in 1..Len(healthyPodPhases) : phase = healthyPodPhases[i] THEN NoError
        ELSE Errorf("pod is in invalid phase " \o Quote(phase) \o " (expected one of "
                    \o QuoteSlice(healthyPodPhases) \o ")")

\* Faulty variant of CheckReplicaSet: the replica test comes first.
CheckReplicaSetReplicasFirst(rs) ==
    LET replicas == rs.replicas
    IN  IF replicas # <<>> /\ rs.readyReplicas < replicas[1]
        THEN Errorf("ReplicaSet does not have minimum availability")
        ELSE IF rs.observedGeneration < rs.generation
        THEN Errorf("observed generation outdated (" \o ToString(rs.observedGeneration)
                    \o "/" \o ToString(rs.generation) \o ")")
        ELSE NoError

CheckReplicaSet(rs) ==
    IF rs.observedGeneration < rs.generation
    THEN Errorf("observed generation outdated (" \o ToString(rs.observedGeneration)
                \o "/" \o ToString(rs.generation) \o ")")
    ELSE LET replicas == rs.replicas
         IN  IF replicas # <<>> /\ rs.readyReplicas < replicas[1]
             THEN Errorf("ReplicaSet does not have minimum availability")
             ELSE NoError

\* Faulty variant of CheckReplicationController: equal replica counts fail.
CheckReplicationControllerStrict(rc) ==
    IF rc.observedGeneration < rc.generation
    THEN Errorf("observed generation outdated (" \o ToString(rc.observedGeneration)
                \o "/" \o ToString(rc.generation) \o ")")
    ELSE LET replicas == rc.replicas
         IN  IF replicas # <<>> /\ rc.readyReplicas <= replicas[1]
             THEN Errorf("ReplicationController does not have minimum availability")
             ELSE NoError

CheckReplicationController(rc) ==
    IF rc.observedGeneration < rc.generation
    THEN Errorf("observed generation outdated (" \o ToString(rc.observedGeneration)
                \o "/" \o ToString(rc.generation) \o ")")
    ELSE LET replicas == rc.replicas
         IN  IF replicas # <<>> /\ rc.readyReplicas < replicas[1]
             THEN Errorf("ReplicationController does not have minimum availability")
             ELSE NoError

\* A check is called on the object and returns.
Returned(kind, error) ==
    /\ object.kind = kind
    /\ ~checked
    /\ checked' = TRUE
    /\ health' = error
    /\ UNCHANGED <<object, storeVars, localVars, upToDate, pending>>

CallCheckCustomResourceDefinition ==
    Returned("CustomResourceDefinition", CheckCustomResourceDefinition(object))

CallCheckJob == Returned("Job", CheckJob(object))

CallCheckPod == Returned("Pod", CheckPod(object))

CallCheckReplicaSet == Returned("ReplicaSet", CheckReplicaSet(object))

CallCheckReplicationController ==
    Returned("ReplicationController", CheckReplicationController(object))

InitHealth ==
    /\ Constructed
    /\ object \in Objects
    /\ checked = FALSE
    /\ health = NoError

NextHealth ==
    \/ CallCheckCustomResourceDefinition
    \/ CallCheckJob
    \/ CallCheckPod
    \/ CallCheckReplicaSet
    \/ CallCheckReplicationController

SpecHealth == InitHealth /\ [][NextHealth]_vars

\* ------------------------------------------------------------------------
\* Properties
\* ------------------------------------------------------------------------

Range(seq) == {seq[i] : i \in DOMAIN seq}

\* Some ManagedResource in the namespace of Secret k that the instance of
\* the given class is responsible for lists the name of k in its secretRefs.
DependsOn(class, k) ==
    \E rk \in ResourceKeys :
        /\ resources[rk].exists
        /\ rk[1] = k[1]
        /\ Responsible(class, resources[rk])
        /\ k[2] \in Range(resources[rk].secretRefs)

Own(c) == FinalizerName(c)

\* Instance c returns from Reconcile in this step.
Returns(c) == pc[c] # "idle" /\ pc'[c] = "idle"

\* The Update issued by instance c in this step is accepted by the store.
Writes(c) == pc[c] = "tryUpdate" /\ pc'[c] = "idle" /\ err'[c] = ""

\* C1 as stated: a Secret is never removed from the store while a
\* ManagedResource of its namespace the reconciler is responsible for lists it.
C1_NeverRemovedWhileReferenced ==
    [][\A k \in SecretKeys :
          secrets[k].exists /\ DependsOn(DefaultClass, k) => secrets'[k].exists]_vars

\* C1, amended: a Secret is never removed from the store while it carries the
\* reconciler's finalizer, except by the reconciler's own write that removes the
\* finalizer, issued by a Reconcile whose list held no owned reference to it.
C1_ProtectedWhileFinalized ==
    [][\A k \in SecretKeys :
          /\ secrets[k].exists
          /\ Own(DefaultClass) \in secrets[k].finalizers
          /\ ~secrets'[k].exists
          => /\ Writes(DefaultClass)
             /\ req[DefaultClass] = k
             /\ removeFinalizer[DefaultClass]
             /\ ~secretIsReferenced[DefaultClass]]_vars

\* Deletion of a referenced Secret was requested and the finalizer holds it.
C1_Witness ==
    \E k \in SecretKeys :
        /\ secrets[k].deleting
        /\ Own(DefaultClass) \in secrets[k].finalizers
        /\ DependsOn(DefaultClass, k)

\* C2 as stated, at the first point after a Reconcile of S has completed: the
\* finalizer is on S iff an owned ManagedResource of S's namespace lists S.
C2_FinalizerIffReferenced ==
    [][\A c \in Classes :
          Returns(c) /\ result'[c] = Success /\ secrets'[req[c]].exists
          => (Own(c) \in secrets'[req[c]].finalizers <=> DependsOn(c, req[c])')]_vars

\* What the Reconcile of instance c found, or finds in this step, in the list
\* of ManagedResources it reads.
ListedReference(c) ==
    IF pc[c] = "list" THEN DependsOn(c, req[c]) ELSE secretIsReferenced[c]

\* C2, amended: when a Reconcile of S returns success without requeue and S
\* exists, the finalizer is on S iff the list of S's namespace this Reconcile
\* read held an owned ManagedResource naming S; other namespaces do not count.
C2_FinalizerIffListed ==
    [][\A c \in Classes :
          /\ Returns(c) /\ result'[c] = Success /\ secrets'[req[c]].exists
             => (Own(c) \in secrets'[req[c]].finalizers <=> ListedReference(c))
          /\ pc[c] = "list" /\ pc'[c] = "tryGet"
             => (secretIsReferenced'[c] <=> DependsOn(c, req[c]))]_vars

\* A Reconcile wrote the finalizer onto a Secret that is referenced in its own
\* namespace while a ManagedResource of another namespace names it as well.
C2_Witness ==
    LET c == DefaultClass
    IN  /\ result[c] = Success
        /\ updates[c] >= 1
        /\ Own(c) \in secrets[req[c]].finalizers
        /\ DependsOn(c, req[c])
        /\ \E rk \in ResourceKeys :
              /\ rk[1] # req[c][1]
              /\ resources[rk].exists
              /\ req[c][2] \in Range(resources[rk].secretRefs)

\* TryUpdate of instance c reads the Secret again, after a conflict, in this step.
Rereads(c) == pc[c] = "tryGet" /\ attempt[c] >= 1 /\ pc'[c] = "tryUpdate"

\* C3 as stated: the object prepared by a retry carries the finalizer iff the
\* Secret is referenced by an owned ManagedResource at the time of the retry.
C3_RetryRecomputesDecision ==
    [][\A c \in Classes :
          Rereads(c) => (Own(c) \in secret'[c] <=> DependsOn(c, req[c]))]_vars

\* C3, amended: a retry reads the Secret again and applies the decision taken
\* before the first attempt to the finalizers it has just read; the list of
\* ManagedResources is not read again, and the write that succeeds sets the
\* finalizer as that list said.
C3_RetryReplaysDecision ==
    [][\A c \in Classes :
          /\ Rereads(c)
             => /\ secret'[c] \ {Own(c)} = secrets[req[c]].finalizers \ {Own(c)}
                /\ (Own(c) \in secret'[c] <=> addFinalizer[c])
                /\ (addFinalizer[c] <=> secretIsReferenced[c])
                /\ (removeFinalizer[c] <=> ~secretIsReferenced[c])
          /\ pc[c] \in {"tryGet", "tryUpdate"} /\ pc'[c] \in {"tryGet", "tryUpdate"}
             => /\ addFinalizer'[c] = addFinalizer[c]
                /\ removeFinalizer'[c] = removeFinalizer[c]
                /\ secretIsReferenced'[c] = secretIsReferenced[c]
          /\ Writes(c) /\ secrets'[req[c]].exists
             => (Own(c) \in secrets'[req[c]].finalizers <=> secretIsReferenced[c])]_vars

\* A retry is under way whose decision no longer matches the references.
C3_Witness ==
    \E c \in Classes :
        /\ pc[c] = "tryUpdate"
        /\ attempt[c] >= 2
        /\ secretIsReferenced[c] # DependsOn(c, req[c])

\* C4: with the two instances interleaved in any order, membership of a
\* class's finalizer in a Secret's finalizer set changes only in a step in which
\* that class's own instance has its Update of that Secret accepted.
C4_ForeignFinalizerUntouched ==
    [][\A c \in Classes, k \in SecretKeys :
          (Own(c) \in secrets[k].finalizers) # (Own(c) \in secrets'[k].finalizers)
          => Writes(c) /\ req[c] = k]_vars

\* An instance had its write accepted after a conflict on a Secret that
\* carries the finalizers of both classes.
C4_Witness ==
    \E c \in Classes :
        /\ result[c] = Success
        /\ updates[c] >= 2
        /\ Finalizers \subseteq secrets[req[c]].finalizers

\* C5: a step of Reconcile leaves every ManagedResource and every Secret other
\* than the requested one unchanged, and on the requested Secret it changes
\* nothing but the membership of its own finalizer (the store removes a Secret
\* under deletion when its last finalizer goes).
C5_OnlyOwnFinalizerChanges ==
    [][\A c \in Classes :
          pc'[c] # pc[c]
          => /\ resources' = resources
             /\ \A k \in SecretKeys \ {req'[c]} : secrets'[k] = secrets[k]
             /\ \A f \in Finalizers \ {Own(c)} :
                   f \in secrets'[req'[c]].finalizers <=> f \in secrets[req'[c]].finalizers
             /\ \/ /\ secrets'[req'[c]].exists = secrets[req'[c]].exists
                   /\ secrets'[req'[c]].deleting = secrets[req'[c]].deleting
                \/ /\ secrets[req'[c]].deleting
                   /\ secrets[req'[c]].finalizers = {Own(c)}
                   /\ secrets'[req'[c]] = NoSecret]_vars

\* An instance removed its finalizer from a Secret that keeps the finalizer of
\* the other class, while the Secret of the other namespace exists.
C5_Witness ==
    \E c \in Classes :
        /\ result[c] = Success
        /\ updates[c] >= 1
        /\ secrets[req[c]].exists
        /\ Own(c) \notin secrets[req[c]].finalizers
        /\ secrets[req[c]].finalizers # {}
        /\ \E k \in SecretKeys \ {req[c]} : secrets[k].exists

\* C6: when the list is read for a Secret that is in the desired state (the
\* finalizer is on it iff an owned ManagedResource lists it), Reconcile returns
\* success without requeue in that step, having issued no Update.
C6_ConvergedMeansNoWrite ==
    [][\A c \in Classes :
          /\ pc[c] = "list" /\ pc'[c] # "list" /\ err'[c] # "Other"
          /\ secrets[req[c]].exists
          /\ (Own(c) \in secrets[req[c]].finalizers <=> DependsOn(c, req[c]))
          => /\ Returns(c)
             /\ result'[c] = [returned |-> TRUE, requeueAfter |-> 0, error |-> ""]
             /\ updates'[c] = 0
             /\ secrets' = secrets]_vars

\* A Reconcile of a referenced Secret that carries the finalizer returned
\* without a write.
C6_Witness ==
    LET c == DefaultClass
    IN  /\ pc[c] = "idle"
        /\ result[c] = Success
        /\ listed[c] = 1
        /\ updates[c] = 0
        /\ Own(c) \in secrets[req[c]].finalizers
        /\ DependsOn(c, req[c])

\* The Update of instance c is answered in this step, and not with an error
\* other than conflict or not-found.
UpdateAnswered(c) == pc[c] = "tryUpdate" /\ pc'[c] # "tryUpdate" /\ err'[c] # "Other"

\* C7: a conflict on the first Update is retried by the same Reconcile, and an
\* undisturbed later attempt returns success without requeue and leaves the
\* finalizer on the Secret iff an owned ManagedResource lists it, provided the
\* references are as the Reconcile listed them.
C7_RetryConverges ==
    [][\A c \in Classes :
          /\ UpdateAnswered(c) /\ attempt[c] = 1
             /\ secrets[req[c]].exists /\ ~upToDate[c]
             => pc'[c] = "tryGet" /\ secrets' = secrets
          /\ UpdateAnswered(c) /\ attempt[c] >= 2
             /\ secrets[req[c]].exists /\ upToDate[c]
             /\ (secretIsReferenced[c] <=> DependsOn(c, req[c]))
             => /\ Returns(c)
                /\ result'[c] = [returned |-> TRUE, requeueAfter |-> 0, error |-> ""]
                /\ attempt[c] <= 4
                /\ secrets'[req[c]].exists
                   => (Own(c) \in secrets'[req[c]].finalizers <=> DependsOn(c, req[c])')]_vars

\* A Reconcile returned success after exactly one conflict, and the Secret it
\* wrote is in the desired state.
C7_Witness ==
    LET c == DefaultClass
    IN  /\ pc[c] = "idle"
        /\ result[c] = Success
        /\ err[c] = ""
        /\ updates[c] = 2
        /\ secrets[req[c]].exists
        /\ Own(c) \in secrets[req[c]].finalizers
        /\ DependsOn(c, req[c])

\* C8: a Secret that does not exist when Reconcile fetches it ends the
\* Reconcile with success, no requeue, no List and no Update; a Secret found
\* missing by the re-read or the Update of TryUpdate ends it with success and
\* no requeue as well.
C8_NotFoundIsSuccess ==
    [][\A c \in Classes :
          /\ pc[c] = "get" /\ pc'[c] # "get" /\ err'[c] # "Other"
             /\ ~secrets[req[c]].exists
             => /\ Returns(c)
                /\ result'[c] = [returned |-> TRUE, requeueAfter |-> 0, error |-> ""]
                /\ listed'[c] = 0
                /\ updates'[c] = 0
                /\ secrets' = secrets
          /\ pc[c] \in {"tryGet", "tryUpdate"} /\ pc'[c] # pc[c] /\ err'[c] # "Other"
             /\ ~secrets[req[c]].exists
             => /\ Returns(c)
                /\ result'[c] = [returned |-> TRUE, requeueAfter |-> 0, error |-> ""]
                /\ secrets' = secrets]_vars

\* A Reconcile returned success after its Update found the Secret deleted.
C8_Witness ==
    LET c == DefaultClass
    IN  /\ pc[c] = "idle"
        /\ err[c] = "NotFound"
        /\ updates[c] >= 1
        /\ result[c] = Success

\* C9: a failing fetch (other than not-found) or a failing list ends the
\* Reconcile with an error, with no add/remove decision, no Update and the
\* store unchanged; and only these two failures make Reconcile return an error.
C9_ReadFailureIsError ==
    [][\A c \in Classes :
          /\ pc[c] \in {"get", "list"} /\ pc'[c] # pc[c] /\ err'[c] = "Other"
             => /\ Returns(c)
                /\ result'[c].error # ""
                /\ result'[c].requeueAfter = 0
                /\ ~addFinalizer'[c] /\ ~removeFinalizer'[c]
                /\ updates'[c] = 0
                /\ secrets' = secrets
          /\ Returns(c) /\ result'[c].error # ""
             => pc[c] \in {"get", "list"} /\ err'[c] = "Other"]_vars

\* The list failed for a Secret that is referenced and has no finalizer yet.
C9_Witness ==
    LET c == DefaultClass
    IN  /\ pc[c] = "idle"
        /\ result[c] = ListError
        /\ DependsOn(c, req[c])
        /\ secrets[req[c]].exists
        /\ Own(c) \notin secrets[req[c]].finalizers

\* C10: when TryUpdate gives up after its last attempt met a conflict, or
\* fails with any error other than not-found, Reconcile returns no error and a
\* requeue after 5 seconds, whatever the number of attempts made.
C10_WriteFailureRequeues ==
    [][\A c \in Classes :
          /\ UpdateAnswered(c) /\ attempt[c] = 4
             /\ secrets[req[c]].exists /\ ~upToDate[c]
             => Returns(c) /\ err'[c] = "Timeout"
          /\ pc[c] \in {"tryGet", "tryUpdate"} /\ Returns(c)
             /\ err'[c] \notin {"", "NotFound"}
             => /\ result'[c] = [returned |-> TRUE, requeueAfter |-> 5, error |-> ""]
                /\ secrets' = secrets]_vars

\* A Reconcile used up its attempts on conflicts and asked for a requeue.
C10_Witness ==
    LET c == DefaultClass
    IN  /\ pc[c] = "idle"
        /\ err[c] = "Timeout"
        /\ updates[c] = 4
        /\ result[c] = Requeue

\* Some ManagedResource in the namespace of Secret k lists the name of k but
\* belongs to a class the instance of the given class is not responsible for.
ForeignReference(class, k) ==
    \E rk \in ResourceKeys :
        /\ resources[rk].exists
        /\ rk[1] = k[1]
        /\ ~Responsible(class, resources[rk])
        /\ k[2] \in Range(resources[rk].secretRefs)

\* C11: a Reconcile decides to add its finalizer only when the list holds a
\* ManagedResource it is responsible for that names the Secret, and its write
\* puts the finalizer on the Secret only after such a decision; when the list
\* holds no such ManagedResource and the Secret carries the finalizer, the
\* Reconcile decides to remove it and its accepted write takes it off.
C11_OnlyOwnedReferencesCount ==
    [][\A c \in Classes :
          /\ pc[c] = "list" /\ pc'[c] = "tryGet" /\ addFinalizer'[c]
             => DependsOn(c, req[c])
          /\ Writes(c)
             /\ Own(c) \notin secrets[req[c]].finalizers
             /\ Own(c) \in secrets'[req[c]].finalizers
             => addFinalizer[c] /\ secretIsReferenced[c]
          /\ pc[c] = "list" /\ pc'[c] # "list" /\ err'[c] # "Other"
             /\ secrets[req[c]].exists
             /\ ~DependsOn(c, req[c])
             => IF Own(c) \in secrets[req[c]].finalizers
                THEN pc'[c] = "tryGet" /\ removeFinalizer'[c] /\ ~addFinalizer'[c]
                ELSE Returns(c) /\ result'[c] = Success /\ secrets' = secrets
          /\ Writes(c) /\ removeFinalizer[c]
             => Own(c) \notin secrets'[req[c]].finalizers]_vars

\* An instance took its finalizer off a Secret that a ManagedResource of
\* another class still names.
C11_Witness ==
    \E c \in Classes :
        /\ pc[c] = "idle"
        /\ result[c] = Success
        /\ updates[c] >= 1
        /\ secrets[req[c]].exists
        /\ Own(c) \notin secrets[req[c]].finalizers
        /\ ForeignReference(c, req[c])
        /\ ~DependsOn(c, req[c])

\* Every Secret carries the finalizer of the default-class instance iff an
\* owned ManagedResource of its namespace lists it.
Converged ==
    \A k \in SecretKeys :
        secrets[k].exists
        => (Own(DefaultClass) \in secrets[k].finalizers <=> DependsOn(DefaultClass, k))

\* C12: once external actors have stopped changing ManagedResources and
\* Secrets, with every change and every requeue triggering a Reconcile that is
\* eventually run and store calls that eventually succeed, every Secret ends up
\* with the finalizer iff an owned ManagedResource lists it, and stays so.
C12_DriftSelfHeals == <>[]Converged

\* A Reconcile that decided on a stale list has left the finalizer on a Secret
\* that is no longer referenced, and a further Reconcile of it is queued.
C12_Witness ==
    LET c == DefaultClass
    IN  /\ pc[c] = "idle"
        /\ result[c] = Success
        /\ updates[c] >= 1
        /\ secrets[req[c]].exists
        /\ Own(c) \in secrets[req[c]].finalizers
        /\ ~DependsOn(c, req[c])
        /\ req[c] \in pending

\* The object has been handed to its check and the check has returned.
Checked(kind) == checked /\ object.kind = kind

\* The conditions list holds a condition of the type.
Present(conditions, type) ==
    \E i \in 1..Len(conditions) : conditions[i].type = type

\* The earliest condition of the type in the list.
Earliest(conditions, type) ==
    conditions[CHOOSE i \in 1..Len(conditions) :
                   /\ conditions[i].type = type
                   /\ \A j \in 1..(i - 1) : conditions[j].type # type]

MissingFailure(type) == <<"condition \"" \o type \o "\" is missing">>

InvalidStatusFailure(type, expected, condition) ==
    <<"condition \"" \o type \o "\" has invalid status " \o condition.status
      \o " (expected " \o expected \o ") due to " \o condition.reason
      \o ": " \o condition.message>>

\* What is wrong with a CustomResourceDefinition's conditions of one type:
\* a failure, or <<>>.
CrdFailure(conditions, type) ==
    LET expected == IF type = "Terminating" THEN "False" ELSE "True"
    IN  IF ~Present(conditions, type)
        THEN IF type = "Terminating" THEN <<>> ELSE MissingFailure(type)
        ELSE IF Earliest(conditions, type).status = expected THEN <<>>
        ELSE InvalidStatusFailure(type, expected, Earliest(conditions, type))

\* C13: CheckCustomResourceDefinition returns nil iff NamesAccepted and
\* Established are present with status True and Terminating is absent or has
\* status False; a missing NamesAccepted yields 'condition "NamesAccepted" is
\* missing', and every failure is the missing-condition failure of an absent
\* required type or the invalid-status failure of a present condition whose
\* status is not the expected one (Unknown included), naming type, actual
\* status, expected status, reason and message.
C13_CrdHealthyIffConditionsMet ==
    Checked("CustomResourceDefinition")
    => LET cs == object.conditions
           Has(type, status) == Present(cs, type) /\ Earliest(cs, type).status = status
           healthy == /\ Has("NamesAccepted", "True")
                      /\ Has("Established", "True")
                      /\ ~Present(cs, "Terminating") \/ Has("Terminating", "False")
           failures == {CrdFailure(cs, type) :
                            type \in {"NamesAccepted", "Established", "Terminating"}}
                       \ {<<>>}
       IN  /\ health = NoError <=> healthy
           /\ health # NoError => health \in failures
           /\ ~Present(cs, "NamesAccepted")
              => health = <<"condition \"NamesAccepted\" is missing">>
           /\ /\ Has("NamesAccepted", "True")
              /\ Present(cs, "Established")
              /\ ~Has("Established", "True")
              => health = InvalidStatusFailure("Established", "True",
                                               Earliest(cs, "Established"))

\* A CustomResourceDefinition whose names are accepted and whose Established
\* condition is Unknown has been reported with the invalid-status failure.
C13_Witness ==
    /\ Checked("CustomResourceDefinition")
    /\ Len(object.conditions) = 2
    /\ object.conditions[1].type = "NamesAccepted"
    /\ object.conditions[1].status = "True"
    /\ object.conditions[2].type = "Established"
    /\ object.conditions[2].status = "Unknown"
    /\ object.conditions[2].reason = "InitialNamesAccepted"
    /\ health = <<"condition \"Established\" has invalid status Unknown (expected True) due to InitialNamesAccepted: see controller log">>

C15_PodHealthyIffRunningOrSucceeded ==
    Checked("Pod")
    => /\ health = NoError <=> object.phase \in {"Running", "Succeeded"}
       /\ object.phase \notin {"Running", "Succeeded"}
          => health = <<"pod is in invalid phase \"" \o object.phase
                        \o "\" (expected one of [\"Running\" \"Succeeded\"])">>

\* A Pending Pod has been reported with its phase and the accepted phases.
C15_Witness ==
    /\ Checked("Pod")
    /\ object.phase = "Pending"
    /\ health = <<"pod is in invalid phase \"Pending\" (expected one of [\"Running\" \"Succeeded\"])">>

\* C16: CheckJob returns nil iff the Job has no Failed condition or its Failed
\* condition has status False; a Failed condition with status True or Unknown
\* yields the invalid-status failure, and the verdict is the same as for the
\* Job's Failed conditions alone.
C16_JobHealthyUnlessFailed ==
    Checked("Job")
    => LET cs == object.conditions
           IsFailed(condition) == condition.type = "Failed"
           failedOnly == SelectSeq(cs, IsFailed)
       IN  /\ health = NoError
              <=> (~Present(cs, "Failed") \/ Earliest(cs, "Failed").status = "False")
           /\ Present(cs, "Failed") /\ Earliest(cs, "Failed").status \in {"True", "Unknown"}
              => health = InvalidStatusFailure("Failed", "False", Earliest(cs, "Failed"))
           /\ health = IF failedOnly = <<>> \/ failedOnly[1].status = "False"
                       THEN <<>>
                       ELSE InvalidStatusFailure("Failed", "False", failedOnly[1])

\* A Job whose Complete condition comes first and is True and whose Failed
\* condition is Unknown has been reported with the invalid-status failure.
C16_Witness ==
    /\ Checked("Job")
    /\ Len(object.conditions) = 2
    /\ object.conditions[1].type = "Complete"
    /\ object.conditions[1].status = "True"
    /\ object.conditions[2].type = "Failed"
    /\ object.conditions[2].status = "Unknown"
    /\ object.conditions[2].reason = "InstanceDeletionFailed"
    /\ health = <<"condition \"Failed\" has invalid status Unknown (expected False) due to InstanceDeletionFailed: see controller log">>

\* The failure with the kind name in the minimum-availability message replaced.
WithKind(error, from, to) ==
    IF error = <<from \o " does not have minimum availability">>
    THEN <<to \o " does not have minimum availability">>
    ELSE error

\* C17: on the same generation, observedGeneration, replicas (unset included)
\* and readyReplicas, CheckReplicationController and CheckReplicaSet both
\* return nil or both return the same failure, up to the kind name in the
\* minimum-availability message.
C17_ReplicationControllerAsReplicaSet ==
    /\ Checked("ReplicationController")
       => /\ health = WithKind(CheckReplicaSet(object), "ReplicaSet", "ReplicationController")
          /\ health = NoError <=> CheckReplicaSet(object) = NoError
    /\ Checked("ReplicaSet")
       => /\ health = WithKind(CheckReplicationController(object),
                               "ReplicationController", "ReplicaSet")
          /\ health = NoError <=> CheckReplicationController(object) = NoError

\* A ReplicationController with exactly too few ready replicas has been
\* reported under its own kind name where the ReplicaSet check names
\* ReplicaSet.
C17_Witness ==
    /\ Checked("ReplicationController")
    /\ object.observedGeneration = object.generation
    /\ object.replicas = <<3>>
    /\ object.readyReplicas = 2
    /\ health = <<"ReplicationController does not have minimum availability">>
    /\ CheckReplicaSet(object) = <<"ReplicaSet does not have minimum availability">>

\* How far instance c is inside Reconcile: 0 before Get, 1 before List, then two
\* positions for each attempt of TryUpdate.
Rank(c) ==
    CASE pc[c] = "get" -> 0
      [] pc[c] = "list" -> 1
      [] pc[c] = "tryGet" -> 2 + 2 * attempt[c]
      [] pc[c] = "tryUpdate" -> 1 + 2 * attempt[c]
      [] OTHER -> 0

\* C18: a Reconcile that has started is waiting for the answer to one of its
\* store calls, every answer either makes it return or moves it strictly
\* forward through a bounded range of positions, it begins at most Steps
\* read-modify-write attempts and issues at most Steps Updates, and a conflict
\* on the last attempt returns with a requeue instead of another retry.
C18_ReconcileTerminates ==
    [][\A c \in Classes :
          /\ pc[c] \in {"idle", "get", "list", "tryGet", "tryUpdate"}
          /\ pc[c] # "idle" /\ <<pc[c], attempt[c], updates[c], listed[c]>>'
                               # <<pc[c], attempt[c], updates[c], listed[c]>>
             => Returns(c) \/ (pc'[c] # "idle" /\ Rank(c)' > Rank(c))
          /\ Rank(c)' <= 1 + 2 * Steps
          /\ attempt'[c] <= Steps
          /\ updates'[c] <= Steps
          /\ pc[c] = "tryUpdate" /\ attempt[c] = Steps /\ pc'[c] # "tryUpdate"
             => Returns(c)
          /\ UpdateAnswered(c) /\ attempt[c] = Steps
             /\ secrets[req[c]].exists /\ ~upToDate[c]
             => Returns(c) /\ result'[c] = Requeue /\ secrets' = secrets]_vars

\* A Reconcile listed once, met a conflict on each of its Steps Updates and
\* returned, leaving the Secret as it was.
C18_Witness ==
    LET c == DefaultClass
    IN  /\ pc[c] = "idle"
        /\ result[c].returned
        /\ err[c] = "Timeout"
        /\ listed[c] = 1
        /\ updates[c] = Steps
        /\ secrets[req[c]].exists
        /\ Own(c) \notin secrets[req[c]].finalizers
        /\ DependsOn(c, req[c])

\* C19: an instance never holds both the add and the remove decision; a step
\* of it that changes the store is its accepted Update, changes only the
\* Secret of its request and ends the Reconcile; and an accepted Update puts
\* its own finalizer onto a stored set that lacked it when adding, or takes it
\* off a stored set that had it when removing, leaving the rest of the set as
\* the attempt read it.
C19_OneWriteOneDirection ==
    [][\A c \in Classes :
          LET old == secrets[req[c]].finalizers
              new == secrets'[req[c]].finalizers
          IN  /\ ~(addFinalizer[c] /\ removeFinalizer[c])
              /\ ~(addFinalizer'[c] /\ removeFinalizer'[c])
              /\ pc'[c] # pc[c] /\ secrets' # secrets
                 => /\ Writes(c)
                    /\ updates'[c] >= 1
                    /\ \A k \in SecretKeys \ {req[c]} : secrets'[k] = secrets[k]
              /\ Writes(c)
                 => /\ addFinalizer[c] # removeFinalizer[c]
                    /\ upToDate[c]
                    /\ addFinalizer[c]
                       => Own(c) \notin old /\ new = old \cup {Own(c)}
                    /\ removeFinalizer[c]
                       => Own(c) \in old /\ new = old \ {Own(c)}]_vars

\* On its second attempt a Reconcile that decided to remove has taken its
\* finalizer off a Secret that still carries the other instance's finalizer.
C19_Witness ==
    \E c \in Classes :
        /\ pc[c] = "idle"
        /\ result[c] = Success
        /\ err[c] = ""
        /\ updates[c] = 2
        /\ secrets[req[c]].exists
        /\ Own(c) \notin secrets[req[c]].finalizers
        /\ secrets[req[c]].finalizers # {}

\* The order in which CheckCustomResourceDefinition looks at condition types.
CrdOrder == <<"NamesAccepted", "Established", "Terminating">>

\* C20: CheckCustomResourceDefinition reports the failure of the first type,
\* in the order NamesAccepted, Established, Terminating, that has one, and no
\* later one; of several conditions of one type the earliest in the list
\* decides.
C20_FirstFailureInOrder ==
    Checked("CustomResourceDefinition")
    => LET cs == object.conditions
       IN  \A i \in 1..Len(CrdOrder) :
               /\ CrdFailure(cs, CrdOrder[i]) # <<>>
               /\ \A j \in 1..(i - 1) : CrdFailure(cs, CrdOrder[j]) = <<>>
               => health = CrdFailure(cs, CrdOrder[i])

\* A CustomResourceDefinition whose first NamesAccepted condition is False and
\* whose second is True, without Established and with a Terminating condition
\* that is True, has been reported for the first NamesAccepted condition only.
C20_Witness ==
    /\ Checked("CustomResourceDefinition")
    /\ Len(object.conditions) = 3
    /\ object.conditions[1].type = "NamesAccepted"
    /\ object.conditions[1].status = "False"
    /\ object.conditions[1].reason = "InstanceDeletionFailed"
    /\ object.conditions[2].type = "NamesAccepted"
    /\ object.conditions[2].status = "True"
    /\ object.conditions[3].type = "Terminating"
    /\ object.conditions[3].status = "True"
    /\ health = <<"condition \"NamesAccepted\" has invalid status False (expected True) due to InstanceDeletionFailed: see controller log">>

TypeOK ==
    /\ secrets \in [SecretKeys -> [exists : BOOLEAN, finalizers : SUBSET Finalizers,
                                   deleting : BOOLEAN]]
    /\ envOps \in 0..MaxEnvOps
    /\ pc \in [Classes -> {"idle", "get", "list", "tryGet", "tryUpdate"}]
    /\ attempt \in [Classes -> 0..Steps]
    /\ updates \in [Classes -> 0..Steps]
    /\ pending \subseteq SecretKeys

====
